---- MODULE Spec2Model ----
(***************************************************************************)
(* Document-to-structure ingestion pipeline of sanatana-critique:          *)
(* POST /api/process (text acquisition, chunking, per-chunk LLM parsing,   *)
(* incremental persistence, finalization), the record store it writes,     *)
(* the processing log, and the status derivation of GET /api/status.       *)
(***************************************************************************)
EXTENDS Integers, Sequences, FiniteSets, TLC

\* ---------------------------------------------------------------------------
\* Bounds of the model
\* ---------------------------------------------------------------------------
MaxFaults == 1      \* record-store inserts that fail for a reason other than a duplicate key
MaxLen == 5         \* longest text given to chunkText in SpecChunk
MaxM == 3           \* largest maxChunkSize given to chunkText in SpecChunk
MaxLost == 1        \* log writes that fail in SpecLogs
MaxUnits == 3       \* longest sequence of units given to combineResults in SpecMerge
MaxRows == 2        \* most chapter rows and log rows read by GET /api/status in SpecStatus
MaxResp == 5        \* longest LLM response over RespChars given to extractJSON in SpecExtract
MaxBody == 5        \* longest object body over BodyChars given to extractJSON in SpecExtract
MaxEntries == 102   \* most log entries of the document in SpecFetch

\* Program constant: processing-logger.ts line 120 (limit = 100)
DEFAULT_LOG_LIMIT == 100

\* Program constant: part_004 line 245
MAX_CHUNK_SIZE == 25000

\* Pipeline runs triggered for the document: a first one and a re-trigger
\* (a retry, a repeated or a concurrent request)
Runs == {1, 2}

\* Lengths of the document's text (characters): single-unit, boundary, 2 and 3 chunks
TextLens == {10000, 50000, 60000}

Chars == {"a", "b"}

Min(a, b) == IF a < b THEN a ELSE b

\* ---------------------------------------------------------------------------
\* Chunker: chunkText
\* ---------------------------------------------------------------------------
\* chunkText resuming one character past the end of the previous chunk
RECURSIVE chunkLoop_skip(_, _, _, _)
chunkLoop_skip(len, maxChunkSize, startIndex, chunks) ==
    IF startIndex < len
    THEN LET endIndex == Min(startIndex + maxChunkSize, len)
         IN  chunkLoop_skip(len, maxChunkSize, endIndex + 1,
                            Append(chunks, [startIndex |-> startIndex, endIndex |-> endIndex]))
    ELSE chunks

RECURSIVE chunkLoop(_, _, _, _)
chunkLoop(len, maxChunkSize, startIndex, chunks) ==
    IF startIndex < len
    THEN LET endIndex == Min(startIndex + maxChunkSize, len)
         IN  chunkLoop(len, maxChunkSize, endIndex,
                       Append(chunks, [startIndex |-> startIndex, endIndex |-> endIndex]))
    ELSE chunks

\* slice leaving out the last character of the range
slice_short(text, startIndex, endIndex) == SubSeq(text, startIndex + 1, endIndex - 1)

\* text.slice(startIndex, endIndex): characters startIndex .. endIndex-1 (0-based)
slice(text, startIndex, endIndex) == SubSeq(text, startIndex + 1, endIndex)

\* chunkText reporting every chunk's extent relative to the chunk itself
chunkText_relative(text, maxChunkSize) ==
    LET bounds == chunkLoop(Len(text), maxChunkSize, 0, <<>>)
    IN  [k \in 1..Len(bounds) |->
            [text |-> slice(text, bounds[k].startIndex, bounds[k].endIndex),
             startIndex |-> 0,
             endIndex |-> bounds[k].endIndex - bounds[k].startIndex]]

chunkText(text, maxChunkSize) ==
    LET bounds == chunkLoop(Len(text), maxChunkSize, 0, <<>>)
    IN  [k \in 1..Len(bounds) |->
            [text |-> slice(text, bounds[k].startIndex, bounds[k].endIndex),
             startIndex |-> bounds[k].startIndex,
             endIndex |-> bounds[k].endIndex]]

\* The pipeline only uses the chunks' extent: the text's content is opaque to it
chunkExtents(textLen, maxChunkSize) == chunkLoop(textLen, maxChunkSize, 0, <<>>)

\* ---------------------------------------------------------------------------
\* Parsed structures (ParsedVerse, ParsedChapter, ParsedDocument)
\* ---------------------------------------------------------------------------
Verse(n, t) == [number |-> n, originalText |-> t]
Chapter(n, t, vs) == [number |-> n, title |-> t, verses |-> vs]
ParsedDocument(t, d, l, chs) == [title |-> t, description |-> d, language |-> l, chapters |-> chs]

\* Structures the LLM's answer can parse to: one chapter each for DocA and DocB,
\* DocC lists chapters out of order and repeats chapter 1 / verse 1 of DocA
DocA == ParsedDocument("A", "descA", "sa", <<Chapter(1, "A1", <<Verse(1, "a11")>>)>>)
DocB == ParsedDocument("B", "descB", "hi", <<Chapter(2, "B2", <<Verse(1, "b21")>>)>>)
DocC == ParsedDocument("C", "descC", "en",
                 <<Chapter(2, "C2", <<Verse(2, "c22")>>), Chapter(1, "C1", <<Verse(1, "c11")>>)>>)
ParsedDocs == {DocA, DocB, DocC}

\* Units given to combineResults besides those: DocD names chapter 1 twice,
\* DocE has an empty description and no chapter
DocD == ParsedDocument("D", "descD", "ta",
                 <<Chapter(1, "D1", <<Verse(3, "d13")>>), Chapter(1, "D1b", <<Verse(1, "d11")>>)>>)
DocE == ParsedDocument("E", "", "en", <<>>)
MergeDocs == ParsedDocs \cup {DocD, DocE}

\* How a unit's extraction fails: complete() throws, extractJSON finds no {...}
\* span, JSON.parse (or the shape access parsed.chapters.length) throws
ExtractionFailures == {"llm_error", "no_json", "bad_json"}

\* ---------------------------------------------------------------------------
\* Pure functions of the process route
\* ---------------------------------------------------------------------------
RECURSIVE countVerses(_)
countVerses(chapters) ==
    IF chapters = <<>> THEN 0
    ELSE Len(chapters[1].verses) + countVerses(Tail(chapters))

\* extractMetadata reading the last document instead of the first
extractMetadata_last(docs) ==
    IF docs = <<>>
    THEN [title |-> "Unknown", description |-> "No description", language |-> "Unknown"]
    ELSE [title |-> docs[Len(docs)].title, description |-> docs[Len(docs)].description,
          language |-> docs[Len(docs)].language]

\* docs[0] of the non-null units; `??` replaces only an absent field
extractMetadata(docs) ==
    IF docs = <<>>
    THEN [title |-> "Unknown", description |-> "No description", language |-> "Unknown"]
    ELSE [title |-> docs[1].title, description |-> docs[1].description,
          language |-> docs[1].language]

RECURSIVE flat(_)
flat(lists) == IF lists = <<>> THEN <<>> ELSE lists[1] \o flat(Tail(lists))

\* Position of chapter number n in the insertion-ordered map, 0 if absent
mapIndex(merged, n) ==
    IF \E k \in 1..Len(merged) : merged[k].number = n
    THEN CHOOSE k \in 1..Len(merged) : merged[k].number = n
    ELSE 0

\* mergeChapters in which a later occurrence replaces the verses collected so far
RECURSIVE mergeInto_replace(_, _)
mergeInto_replace(merged, chapters) ==
    IF chapters = <<>> THEN merged
    ELSE LET chapter == chapters[1]
             k == mapIndex(merged, chapter.number)
         IN  IF k > 0
             THEN mergeInto_replace([merged EXCEPT ![k].verses = chapter.verses], Tail(chapters))
             ELSE mergeInto_replace(Append(merged, chapter), Tail(chapters))

\* The forEach of mergeChapters over the flattened chapter lists: the map keeps
\* the first occurrence of a number and pushes the later ones' verses onto it
RECURSIVE mergeInto(_, _)
mergeInto(merged, chapters) ==
    IF chapters = <<>> THEN merged
    ELSE LET chapter == chapters[1]
             k == mapIndex(merged, chapter.number)
         IN  IF k > 0
             THEN mergeInto([merged EXCEPT ![k].verses = @ \o chapter.verses], Tail(chapters))
             ELSE mergeInto(Append(merged, chapter), Tail(chapters))

\* mergeChapters returning the map's values in insertion order
sortByNumber_keep(chs) == chs

\* Array.prototype.sort((a, b) => a.number - b.number) on pairwise distinct numbers
RECURSIVE sortByNumber(_)
sortByNumber(chs) ==
    IF chs = <<>> THEN <<>>
    ELSE LET m == CHOOSE k \in 1..Len(chs) : \A j \in 1..Len(chs) : chs[k].number <= chs[j].number
         IN  <<chs[m]>> \o sortByNumber(SubSeq(chs, 1, m - 1) \o SubSeq(chs, m + 1, Len(chs)))

mergeChapters(chapterLists) == sortByNumber(mergeInto(<<>>, flat(chapterLists)))

\* docs: the units' results, a null unit being the empty sequence <<>> and a
\* parsed one <<doc>>
combineResults(docs) ==
    LET valid == flat(docs)
        meta == extractMetadata(valid)
    IN  ParsedDocument(meta.title, meta.description, meta.language,
                 mergeChapters([k \in 1..Len(valid) |-> valid[k].chapters]))

\* parseDocument's result in single-unit mode: result ?? {...}
singleResult(result) ==
    IF result = <<>> THEN ParsedDocument("Unknown", "", "Unknown", <<>>) ELSE result[1]

\* isDuplicateError recognising no error as a duplicate
isDuplicateError_none(error) == FALSE

\* isDuplicateError: the store's unique-violation message contains "duplicate"/"unique"
isDuplicateError(error) == error = "duplicate key value violates unique constraint"

\* ---------------------------------------------------------------------------
\* Status derivation (GET /api/status/[documentId])
\* ---------------------------------------------------------------------------
\* Values of documents.status: the ProcessingStatus type and the 'processing'
\* determineStatus tests for
DocumentStatuses ==
    {"uploaded", "parsing", "parsed", "analyzing", "completed", "failed", "processing"}

\* determineStatus testing the Book before the failed status
determineStatus_bookFirst(docStatus, hasBook) ==
    IF hasBook THEN "completed"
    ELSE IF docStatus = "failed" THEN "failed"
    ELSE IF docStatus = "processing" \/ docStatus = "parsing" THEN "processing"
    ELSE "uploaded"

determineStatus(docStatus, hasBook) ==
    IF docStatus = "failed" THEN "failed"
    ELSE IF hasBook THEN "completed"
    ELSE IF docStatus = "processing" \/ docStatus = "parsing" THEN "processing"
    ELSE "uploaded"

\* createErrorResponse: status 'failed', no document, book, chapters or logs
createErrorResponse(statusCode) ==
    [code |-> statusCode, status |-> "failed", book |-> FALSE, chapters |-> 0, logs |-> 0]

\* GET: d is the documents row's status (<<>> if there is no row), book whether
\* fetchBook found a row, nChapters and nLogs the rows fetchChapters and
\* getLogsForDocument return; chapters are fetched only if there is a Book
GET(d, book, nChapters, nLogs) ==
    IF d = <<>> THEN createErrorResponse(404)
    ELSE [code |-> 200, status |-> determineStatus(d[1], book), book |-> book,
          chapters |-> IF book THEN nChapters ELSE 0, logs |-> nLogs]

\* ---------------------------------------------------------------------------
\* LLM response extraction (lib/llm.ts): a response is a sequence of
\* characters. Of JSON the model keeps what extractJSON and sanitizeJSON act
\* on: braces, strings and the backslash escapes inside strings. An object is
\* '{', then characters, strings and nested objects, then '}'.
\* ---------------------------------------------------------------------------
Backslash == "\\"

\* Characters of a response around and inside objects
Quote == "\""
RespChars == {"{", "}", Quote, Backslash, "z"}
\* Characters of a string where escapes matter: 'x', 'u', the hex
\* digits '4', '1', 'd', the escape character 'n'
BodyChars == {Backslash, "x", "4", "1", "d", "n"}

\* [0-9a-fA-F] among the characters used, with the digit's value
HexDigits == {"0", "1", "4", "d"}
HexVal(c) == IF c = "0" THEN 0 ELSE IF c = "1" THEN 1 ELSE IF c = "4" THEN 4 ELSE 13

\* The class ["\\/bfnrtu] of sanitizeJSON's second pattern
RecognizedEscapes == {Quote, Backslash, "/", "b", "f", "n", "r", "t", "u"}

\* Code unit of a character standing for itself
CharCode(c) ==
    IF c = "z" THEN 122 ELSE IF c = "x" THEN 120 ELSE IF c = "u" THEN 117
    ELSE IF c = "n" THEN 110 ELSE IF c = "d" THEN 100 ELSE IF c = "0" THEN 48
    ELSE IF c = "1" THEN 49 ELSE IF c = "4" THEN 52 ELSE IF c = Backslash THEN 92
    ELSE IF c = Quote THEN 34 ELSE IF c = "/" THEN 47 ELSE IF c = "b" THEN 98
    ELSE IF c = "f" THEN 102 ELSE IF c = "r" THEN 114 ELSE IF c = "t" THEN 116
    ELSE IF c = "{" THEN 123 ELSE IF c = "}" THEN 125
    ELSE 63

\* Code unit a JSON escape \c denotes (c one of " \ / b f n r t)
EscapeCode(c) ==
    IF c = "n" THEN 10 ELSE IF c = "b" THEN 8 ELSE IF c = "f" THEN 12
    ELSE IF c = "r" THEN 13 ELSE IF c = "t" THEN 9 ELSE CharCode(c)

\* Marks of an object's start and end and of a string's ends in a parsed value
OPEN == 0 - 1
CLOSE == 0 - 2
QUOTED == 0 - 3

IsHexAt(s, k) == k <= Len(s) /\ s[k] \in HexDigits

\* First pass of sanitizeJSON: replace(/\\x([0-9a-fA-F]{2})/g, '\\u00$1'), from position k on
RECURSIVE replaceHexEscapes(_, _)
replaceHexEscapes(s, k) ==
    IF k > Len(s) THEN <<>>
    ELSE IF s[k] = Backslash /\ k + 1 <= Len(s) /\ s[k + 1] = "x"
            /\ IsHexAt(s, k + 2) /\ IsHexAt(s, k + 3)
    THEN <<Backslash, "u", "0", "0", s[k + 2], s[k + 3]>> \o replaceHexEscapes(s, k + 4)
    ELSE <<s[k]>> \o replaceHexEscapes(s, k + 1)

\* Second pass of sanitizeJSON: replace(/\\(?!["\\/bfnrtu])/g, '\\\\'): every
\* backslash whose next character is not in the class (or that is the last
\* character) is doubled, each backslash looked at on its own
RECURSIVE doubleStrayBackslashes(_, _)
doubleStrayBackslashes(s, k) ==
    IF k > Len(s) THEN <<>>
    ELSE IF s[k] = Backslash /\ ~(k + 1 <= Len(s) /\ s[k + 1] \in RecognizedEscapes)
    THEN <<Backslash, Backslash>> \o doubleStrayBackslashes(s, k + 1)
    ELSE <<s[k]>> \o doubleStrayBackslashes(s, k + 1)

sanitizeJSON(jsonStr) == doubleStrayBackslashes(replaceHexEscapes(jsonStr, 1), 1)

ParseError == "SyntaxError"
NoJSONFound == "No JSON found in response"

\* JSON.parse from position k at nesting depth, inside a string or not, acc
\* the value so far: the code units of the characters and escapes, OPEN and
\* CLOSE around each object, QUOTED at each end of a string. It throws on a
\* backslash outside a string, on an escape that is not one of JSON's, on an
\* unclosed string or object and on anything after the object's end.
RECURSIVE parseFrom(_, _, _, _, _)
parseFrom(s, k, depth, inString, acc) ==
    IF k > Len(s)
    THEN IF depth = 0 /\ ~inString THEN [error |-> "", value |-> acc]
         ELSE [error |-> ParseError, value |-> <<>>]
    ELSE IF depth = 0 THEN [error |-> ParseError, value |-> <<>>]
    ELSE IF inString
    THEN IF s[k] = Quote THEN parseFrom(s, k + 1, depth, FALSE, Append(acc, QUOTED))
         ELSE IF s[k] # Backslash
         THEN parseFrom(s, k + 1, depth, TRUE, Append(acc, CharCode(s[k])))
         ELSE IF k + 1 <= Len(s) /\ s[k + 1] \in RecognizedEscapes \ {"u"}
         THEN parseFrom(s, k + 2, depth, TRUE, Append(acc, EscapeCode(s[k + 1])))
         ELSE IF k + 1 <= Len(s) /\ s[k + 1] = "u" /\ IsHexAt(s, k + 2) /\ IsHexAt(s, k + 3)
                 /\ IsHexAt(s, k + 4) /\ IsHexAt(s, k + 5)
         THEN parseFrom(s, k + 6, depth, TRUE,
                        Append(acc, 4096 * HexVal(s[k + 2]) + 256 * HexVal(s[k + 3])
                                        + 16 * HexVal(s[k + 4]) + HexVal(s[k + 5])))
         ELSE [error |-> ParseError, value |-> <<>>]
    ELSE IF s[k] = "{" THEN parseFrom(s, k + 1, depth + 1, FALSE, Append(acc, OPEN))
    ELSE IF s[k] = "}" THEN parseFrom(s, k + 1, depth - 1, FALSE, Append(acc, CLOSE))
    ELSE IF s[k] = Quote THEN parseFrom(s, k + 1, depth, TRUE, Append(acc, QUOTED))
    ELSE IF s[k] = Backslash THEN [error |-> ParseError, value |-> <<>>]
    ELSE parseFrom(s, k + 1, depth, FALSE, Append(acc, CharCode(s[k])))

JSONparse(s) ==
    IF s = <<>> \/ s[1] # "{" THEN [error |-> ParseError, value |-> <<>>]
    ELSE parseFrom(s, 2, 1, FALSE, <<OPEN>>)

\* text.match(/\{[\s\S]*\}/): from the first '{' that has a '}' after it to
\* the last '}' of the text; <<>> if there is none
jsonMatch(text) ==
    LET starts == {i \in 1..Len(text) :
                      text[i] = "{" /\ \E j \in (i + 1)..Len(text) : text[j] = "}"}
    IN  IF starts = {} THEN <<>>
        ELSE LET i == CHOOSE a \in starts : \A b \in starts : a <= b
                 j == CHOOSE a \in 1..Len(text) :
                          text[a] = "}" /\ \A b \in 1..Len(text) : text[b] = "}" => b <= a
             IN  SubSeq(text, i, j)

extractJSON(text) ==
    IF jsonMatch(text) = <<>> THEN [error |-> NoJSONFound, value |-> <<>>]
    ELSE JSONparse(sanitizeJSON(jsonMatch(text)))

\* ProcessingLog rows getLogsForDocument returns: ORDER BY created_at ASC
\* LIMIT limit of the document's rows (kept in creation order), and no row when
\* the query fails
getLogsForDocument(rows, limit, ok) ==
    IF ok THEN SubSeq(rows, 1, Min(limit, Len(rows))) ELSE <<>>

\* ---------------------------------------------------------------------------
\* State
\* ---------------------------------------------------------------------------
VARIABLES
    doc,        \* the documents row the runs are triggered for
    books,      \* books table: sequence of rows, the row's id is its position
    chapters,   \* chapters table: set of rows
    verses,     \* verses table: set of rows
    logs,       \* processing_logs rows of the document, in creation order
    faults,     \* inserts that failed so far for a reason other than a duplicate key
    requests,   \* how many times processing is triggered for the document
    run,        \* per pipeline run: position in POST and its local variables
    logStore,   \* "up": every processing_logs insert succeeds; "flaky": some may fail
    lost,       \* processing_logs inserts that failed so far
    cText, cMax, cChunks, cpc,  \* SpecChunk: chunkText's arguments and result
    mUnits, mResult, mpc,       \* SpecMerge: combineResults' argument and result
    sDoc, sBook, sChapters, sLogs, sResponse, spc,
                \* SpecStatus: the rows GET /api/status reads and its response
    xText, xResult, xpc,        \* SpecExtract: extractJSON's argument and result
    gFetched, gpc               \* SpecFetch: what getLogsForDocument returned last

storeVars == <<books, chapters, verses>>
chunkVars == <<cText, cMax, cChunks, cpc>>
mergeVars == <<mUnits, mResult, mpc>>
statusVars == <<sDoc, sBook, sChapters, sLogs, sResponse, spc>>
extractVars == <<xText, xResult, xpc>>
fetchVars == <<gFetched, gpc>>
fnVars == <<chunkVars, mergeVars, statusVars, extractVars, fetchVars>>
envVars == <<doc, requests, logStore>>
logVars == <<logs, lost>>
vars == <<envVars, storeVars, logVars, faults, run, fnVars>>

\* A processing_logs row: level, message, the chunk or chapter number the
\* message names (0 if none) and the detail it carries (an error's message, a
\* response's status)
Log(level, message, chunk) ==
    [level |-> level, message |-> message, chunk |-> chunk, detail |-> ""]
LogDetail(level, message, detail) ==
    [level |-> level, message |-> message, chunk |-> 0, detail |-> detail]

NoResponse == [status |-> 0, success |-> FALSE, error |-> "", title |-> "",
               totalChapters |-> 0, totalVerses |-> 0]
ErrorResponse(message) == [NoResponse EXCEPT !.status = 500, !.error = message]

IdleRun == [pc |-> "idle", bookId |-> 0, insertedChapters |-> {}, single |-> FALSE,
            chunks |-> <<>>, i |-> 0, results |-> <<>>, cur |-> <<>>, ci |-> 0, vi |-> 0,
            llmRequests |-> 0, handed |-> <<>>, updates |-> 0, response |-> NoResponse]

\* ---------------------------------------------------------------------------
\* Record store (db-operations.ts, neon-db.ts) under the schema's constraints
\* ---------------------------------------------------------------------------
DuplicateKey == "duplicate key value violates unique constraint"
ForeignKey == "violates foreign key constraint"
StoreDown == "connection error"
NotImplemented == "Not implemented yet"

\* insertBook answering with the new id before the row is in the table
insertBook_late(bks, d, data) ==
    IF ~d.exists THEN [error |-> ForeignKey, books |-> bks, id |-> 0]
    ELSE [error |-> "", books |-> bks, id |-> Len(bks) + 1]

\* INSERT INTO books ... RETURNING *: document_id REFERENCES documents(id); no
\* uniqueness on document_id
insertBook(bks, d, data) ==
    IF ~d.exists THEN [error |-> ForeignKey, books |-> bks, id |-> 0]
    ELSE [error |-> "", books |-> Append(bks, data), id |-> Len(bks) + 1]

\* INSERT INTO chapters: UNIQUE(book_id, number)
insertChapter(chs, data) ==
    IF \E c \in chs : c.bookId = data.bookId /\ c.number = data.number
    THEN [error |-> DuplicateKey, chapters |-> chs]
    ELSE [error |-> "", chapters |-> chs \cup {data}]

\* INSERT INTO verses: UNIQUE(book_id, chapter_number, verse_number)
insertVerse(vs, data) ==
    IF \E v \in vs : /\ v.bookId = data.bookId
                     /\ v.chapterNumber = data.chapterNumber
                     /\ v.verseNumber = data.verseNumber
    THEN [error |-> DuplicateKey, verses |-> vs]
    ELSE [error |-> "", verses |-> vs \cup {data}]

\* NeonDatabase.updateBook: the method's body is `throw new Error('Not implemented yet')`
NeonDatabase_updateBook(bks, id, updates) == [error |-> NotImplemented, books |-> bks]

BookShell == [documentId |-> "doc", title |-> "Processing...",
              description |-> "Document is being processed", language |-> "Unknown",
              totalChapters |-> 0, totalVerses |-> 0]

\* fetchBook(documentId) of the status route: is there a books row of the document
hasBook == \E b \in 1..Len(books) : books[b].documentId = "doc"

\* The status GET /api/status answers for the document
ProcessingStatus == IF ~doc.exists THEN "failed" ELSE determineStatus(doc.status, hasBook)

\* ---------------------------------------------------------------------------
\* POST /api/process
\* ---------------------------------------------------------------------------
SetRun(r, rec) == run' = [run EXCEPT ![r] = rec]

\* catch of POST: log the terminal error, answer 500
Fail(rec, message) == [rec EXCEPT !.pc = "failed", !.response = ErrorResponse(message)]
\* catch of POST logging 'Processing failed' without the error's message
FailLog_bare(message) == Log("error", "Processing failed", 0)

\* `Processing failed: ${message}`
FailLog(message) == LogDetail("error", "Processing failed", message)

LogStoreError == "log store error"

\* writeLog letting the failure of its insert out to the caller
writeLog_throw(lg, entry, ok) ==
    IF ok THEN [logs |-> Append(lg, entry), error |-> ""]
    ELSE [logs |-> lg, error |-> LogStoreError]

\* ProcessingLogger.writeLog: the INSERT INTO processing_logs sits in a
\* try/catch whose catch only calls console.error; nothing is thrown
writeLog(lg, entry, ok) ==
    [logs |-> IF ok THEN Append(lg, entry) ELSE lg, error |-> ""]

\* The logger calls of one step, in order, from the k-th on; the inserts at the
\* positions in failing fail. An exception out of a call ends the sequence.
RECURSIVE writeLogs(_, _, _, _)
writeLogs(lg, entries, k, failing) ==
    IF k > Len(entries) THEN [logs |-> lg, error |-> ""]
    ELSE LET w == writeLog(lg, entries[k], k \notin failing)
         IN  IF w.error # "" THEN w ELSE writeLogs(w.logs, entries, k + 1, failing)

\* Run r awaits the logger calls for entries and goes on as rec; an exception
\* out of a logger call would reach the catch of POST
Emit(r, entries, rec) ==
    \E failing \in (IF logStore = "flaky" THEN SUBSET (1..Len(entries)) ELSE {{}}) :
        /\ lost + Cardinality(failing) <= MaxLost
        /\ lost' = lost + Cardinality(failing)
        /\ LET w == writeLogs(logs, entries, 1, failing)
           IN  /\ logs' = w.logs
               /\ SetRun(r, IF w.error # "" THEN Fail(run[r], w.error) ELSE rec)

\* `if (!documentId) return 400`, before any logger exists
Reject(r) ==
    /\ run[r].pc = "idle"
    /\ r <= requests
    /\ r > 1 => run[r - 1].pc # "idle"
    /\ SetRun(r, [run[r] EXCEPT !.pc = "rejected",
                                !.response = [NoResponse EXCEPT !.status = 400,
                                                                !.error = "Document ID required"]])
    /\ UNCHANGED <<envVars, storeVars, logVars, faults, fnVars>>

\* createLogger, 'Starting processing', createBook (the Book shell), the context
StartRun(r) ==
    /\ run[r].pc = "idle"
    /\ r <= requests
    /\ r > 1 => run[r - 1].pc # "idle"
    /\ \E down \in BOOLEAN :
        /\ down => faults < MaxFaults
        /\ LET ins == IF down THEN [error |-> StoreDown, books |-> books, id |-> 0]
                      ELSE insertBook(books, doc, BookShell)
               head == <<Log("info", "Starting processing", 0),
                         Log("info", "Creating book record", 0)>>
           IN  /\ faults' = IF down THEN faults + 1 ELSE faults
               /\ books' = ins.books
               /\ IF ins.error # ""
                  THEN Emit(r, Append(head, FailLog(ins.error)), Fail(run[r], ins.error))
                  ELSE Emit(r, Append(head, Log("info", "Book created", 0)),
                            [run[r] EXCEPT !.pc = "created", !.bookId = ins.id,
                                           !.insertedChapters = {}])
    /\ UNCHANGED <<envVars, chapters, verses, fnVars>>

\* fetchDocumentBuffer without `if (!response.ok) throw`
fetchDocumentBuffer_noOkCheck(url, fetch) ==
    IF url = "data"
    THEN [logs |-> <<Log("info", "Document stored as base64 data URL (legacy)", 0)>>,
          error |-> ""]
    ELSE IF fetch = "ok" \/ fetch = "http_error"
    THEN [logs |-> <<Log("info", "Fetching from", 0),
                     LogDetail("info", "Fetch response", IF fetch = "ok" THEN "200" ELSE "500"),
                     Log("info", "ArrayBuffer received", 0)>>,
          error |-> ""]
    ELSE [logs |-> <<Log("info", "Fetching from", 0),
                     LogDetail("error", "Fetch failed", "fetch failed")>>,
          error |-> "fetch failed"]

\* fetchDocumentBuffer: the log entries it appends and the error it throws ("" if none)
fetchDocumentBuffer(url, fetch) ==
    IF url = "data"
    THEN [logs |-> <<Log("info", "Document stored as base64 data URL (legacy)", 0)>>,
          error |-> ""]
    ELSE IF fetch = "ok"
    THEN [logs |-> <<Log("info", "Fetching from", 0),
                     LogDetail("info", "Fetch response", "200"),
                     Log("info", "ArrayBuffer received", 0)>>,
          error |-> ""]
    ELSE IF fetch = "http_error"
    THEN [logs |-> <<Log("info", "Fetching from", 0),
                     LogDetail("info", "Fetch response", "500"),
                     LogDetail("error", "Fetch failed", "Failed to fetch document")>>,
          error |-> "Failed to fetch document"]
    ELSE [logs |-> <<Log("info", "Fetching from", 0),
                     LogDetail("error", "Fetch failed", "fetch failed")>>,
          error |-> "fetch failed"]

\* extractDocumentText: the log entries it appends and the error it throws ("" if none)
extractDocumentText(d, fetch, decode) ==
    IF ~d.exists \/ d.rawTextUrl = "none"
    THEN [logs |-> <<>>, error |-> "Document not found"]
    ELSE LET start == <<Log("info", "Starting document extraction", 0)>>
             buf == fetchDocumentBuffer(d.rawTextUrl, fetch)
         IN  IF buf.error # ""
             THEN [logs |-> start \o buf.logs, error |-> buf.error]
             ELSE LET got == start \o buf.logs \o <<Log("info", "Document fetched", 0)>>
                  IN  IF d.fileType = "application/pdf"
                      THEN IF decode = "ok"
                           THEN [logs |-> got \o <<Log("info", "Starting PDF text extraction...", 0),
                                                   Log("info", "PDF progress", 0),
                                                   Log("info", "PDF extraction complete", 0)>>,
                                 error |-> ""]
                           ELSE [logs |-> Append(got, Log("info", "Starting PDF text extraction...", 0)),
                                 error |-> "PDF extraction failed"]
                      ELSE [logs |-> Append(got, Log("info", "Processing as plain text", 0)),
                            error |-> ""]

\* extractDocumentText, then the head of parseDocument: single unit or chunks
AcquireText(r) ==
    /\ run[r].pc = "created"
    /\ \E fetch \in {"ok", "http_error", "network_error"}, decode \in {"ok", "decode_error"} :
        LET x == extractDocumentText(doc, fetch, decode)
        IN  IF x.error # ""
            THEN Emit(r, Append(x.logs, FailLog(x.error)), Fail(run[r], x.error))
            ELSE IF doc.textLen <= MAX_CHUNK_SIZE
            THEN Emit(r, Append(x.logs, Log("info", "Single chunk document", 0)),
                      [run[r] EXCEPT !.pc = "request", !.single = TRUE])
            ELSE Emit(r, Append(x.logs, Log("info", "Splitting into chunks", 0)),
                      [run[r] EXCEPT !.pc = "request", !.single = FALSE,
                                     !.chunks = chunkExtents(doc.textLen, MAX_CHUNK_SIZE),
                                     !.i = 0, !.results = <<>>])
    /\ UNCHANGED <<envVars, storeVars, faults, fnVars>>

\* 1-based position of the unit in the log messages; 0 in single-unit mode
ChunkNo(rec) == IF rec.single THEN 0 ELSE rec.i + 1

\* parseChunks' loop head and parseWithLLM up to the call of complete()
LLMRequest(r) ==
    /\ run[r].pc = "request"
    /\ Emit(r, (IF run[r].single THEN <<>>
                ELSE <<Log("info", "Processing chunk", ChunkNo(run[r]))>>)
               \o <<Log("info", "LLM Request", 0)>>,
            [run[r] EXCEPT !.pc = "llm", !.llmRequests = @ + 1])
    /\ UNCHANGED <<envVars, storeVars, faults, fnVars>>

\* parseChunks leaving its loop at the first unit that fails
UnitEnd_stop(rec) ==
    IF rec.single THEN [rec EXCEPT !.pc = "finalize"]
    ELSE IF rec.cur = <<>> THEN [rec EXCEPT !.i = @ + 1, !.pc = "finalize"]
    ELSE [rec EXCEPT !.results = Append(@, rec.cur[1]),
                     !.i = @ + 1,
                     !.pc = IF rec.i + 1 < Len(rec.chunks) THEN "request" ELSE "finalize"]

\* The unit is over (stored, or failed with cur = <<>>): next chunk or finalization
UnitEnd(rec) ==
    IF rec.single THEN [rec EXCEPT !.pc = "finalize"]
    ELSE [rec EXCEPT !.results = IF rec.cur = <<>> THEN @ ELSE Append(@, rec.cur[1]),
                     !.i = @ + 1,
                     !.pc = IF rec.i + 1 < Len(rec.chunks) THEN "request" ELSE "finalize"]

\* parseWithLLM's catch: complete() or extractJSON threw, the unit is null
LLMFailure(r) ==
    /\ run[r].pc = "llm"
    /\ \E out \in ExtractionFailures :
        Emit(r, (IF out = "llm_error" THEN <<>> ELSE <<Log("info", "LLM Response", 0)>>)
                \o <<Log("error", "Parse failed", ChunkNo(run[r]))>>,
             UnitEnd([run[r] EXCEPT !.cur = <<>>]))
    /\ UNCHANGED <<envVars, storeVars, faults, fnVars>>

\* parseWithLLM returns the parsed unit; storeChunkData starts
LLMResponse(r) ==
    /\ run[r].pc = "llm"
    /\ \E out \in ParsedDocs :
        Emit(r, <<Log("info", "LLM Response", 0), Log("info", "Parsed", 0)>>,
             IF out.chapters = <<>>
             THEN UnitEnd([run[r] EXCEPT !.cur = <<out>>])
             ELSE [run[r] EXCEPT !.pc = "store", !.cur = <<out>>, !.ci = 1, !.vi = 0])
    /\ UNCHANGED <<envVars, storeVars, faults, fnVars>>

\* storeChunkData going on to the next chapter without waiting for the verses
StoreAdvance_noVerses(rec) ==
    IF rec.ci < Len(rec.cur[1].chapters) THEN [rec EXCEPT !.ci = @ + 1, !.vi = 0]
    ELSE UnitEnd(rec)

\* storeChunkData's loops: the item after the one just handled
StoreAdvance(rec) ==
    LET chs == rec.cur[1].chapters
    IN  IF rec.vi < Len(chs[rec.ci].verses) THEN [rec EXCEPT !.vi = @ + 1]
        ELSE IF rec.ci < Len(chs) THEN [rec EXCEPT !.ci = @ + 1, !.vi = 0]
        ELSE UnitEnd(rec)

\* storeChapter never finding the chapter number in the set
alreadyInserted_never(rec, chapter) == FALSE

\* `if (ctx.insertedChapters.has(chapter.number)) return`
alreadyInserted(rec, chapter) == chapter.number \in rec.insertedChapters

\* storeChapter for the current chapter of the unit
StoreChapter(r) ==
    /\ run[r].pc = "store"
    /\ run[r].vi = 0
    /\ LET chapter == run[r].cur[1].chapters[run[r].ci]
       IN  IF alreadyInserted(run[r], chapter)
           THEN /\ Emit(r, <<>>, StoreAdvance(run[r]))
                /\ UNCHANGED <<chapters, faults>>
           ELSE \E down \in BOOLEAN :
                /\ down => faults < MaxFaults
                /\ LET ins == IF down THEN [error |-> StoreDown, chapters |-> chapters]
                              ELSE insertChapter(chapters,
                                       [bookId |-> run[r].bookId, number |-> chapter.number,
                                        title |-> chapter.title,
                                        verseCount |-> Len(chapter.verses)])
                   IN  /\ faults' = IF down THEN faults + 1 ELSE faults
                       /\ chapters' = ins.chapters
                       /\ IF ins.error # ""
                          THEN Emit(r, <<FailLog(ins.error)>>, Fail(run[r], ins.error))
                          ELSE Emit(r, <<Log("info", "Stored Chapter", chapter.number)>>,
                                    StoreAdvance([run[r] EXCEPT !.insertedChapters =
                                                                    @ \cup {chapter.number}]))
    /\ UNCHANGED <<envVars, books, verses, fnVars>>

\* storeVerse for the current verse of the current chapter
StoreVerse(r) ==
    /\ run[r].pc = "store"
    /\ run[r].vi > 0
    /\ \E down \in BOOLEAN :
        /\ down => faults < MaxFaults
        /\ LET chapter == run[r].cur[1].chapters[run[r].ci]
               verse == chapter.verses[run[r].vi]
               ins == IF down THEN [error |-> StoreDown, verses |-> verses]
                      ELSE insertVerse(verses,
                               [bookId |-> run[r].bookId, chapterNumber |-> chapter.number,
                                verseNumber |-> verse.number,
                                originalText |-> verse.originalText])
           IN  /\ faults' = IF down THEN faults + 1 ELSE faults
               /\ verses' = ins.verses
               /\ Emit(r, IF ins.error # "" /\ ~isDuplicateError(ins.error)
                          THEN <<Log("error", "Failed to insert verse", 0)>>
                          ELSE <<>>,
                       StoreAdvance(run[r]))
    /\ UNCHANGED <<envVars, books, chapters, fnVars>>

\* The tail of parseDocument, updateBook and the response
Finalize(r) ==
    /\ run[r].pc = "finalize"
    /\ LET parsed == IF run[r].single THEN singleResult(run[r].cur)
                     ELSE combineResults([k \in 1..Len(run[r].results) |-> <<run[r].results[k]>>])
           totalVerses == countVerses(parsed.chapters)
           head == (IF run[r].single THEN <<>> ELSE <<Log("info", "Parsing complete", 0)>>)
                   \o <<Log("info", "Finalizing book", 0)>>
           upd == NeonDatabase_updateBook(books, run[r].bookId,
                      [title |-> parsed.title, description |-> parsed.description,
                       language |-> parsed.language, totalChapters |-> Len(parsed.chapters),
                       totalVerses |-> totalVerses])
           rec == [run[r] EXCEPT !.handed = <<parsed>>]
       IN  /\ books' = upd.books
           /\ IF upd.error # ""
              THEN Emit(r, Append(head, FailLog(upd.error)), Fail(rec, upd.error))
              ELSE Emit(r, Append(head, Log("info", "Processing complete", 0)),
                        [rec EXCEPT !.pc = "done", !.updates = @ + 1,
                                    !.response = [status |-> 200, success |-> TRUE, error |-> "",
                                                  title |-> parsed.title,
                                                  totalChapters |-> Len(parsed.chapters),
                                                  totalVerses |-> totalVerses]])
    /\ UNCHANGED <<envVars, chapters, verses, faults, fnVars>>

\* ---------------------------------------------------------------------------
\* Specifications
\* ---------------------------------------------------------------------------
\* Documents as /api/upload creates them (status 'uploaded', a blob URL) and the
\* legacy rows (base64 data URL, or no stored content); a run can also name a
\* document that does not exist
Documents ==
    {[exists |-> FALSE, rawTextUrl |-> "none", fileType |-> "text/plain",
      status |-> "uploaded", textLen |-> 0]}
    \cup [exists : {TRUE}, rawTextUrl : {"none", "data", "remote"},
          fileType : {"text/plain", "application/pdf"}, status : {"uploaded"},
          textLen : TextLens]

\* Repeated and concurrent triggers are explored for the documents that are
\* parsed as a single unit, a single trigger for every document
ChunkOff == cText = <<>> /\ cMax = 1 /\ cChunks = <<>> /\ cpc = "off"
MergeOff == mUnits = <<>> /\ mResult = <<>> /\ mpc = "off"
StatusOff ==
    /\ sDoc = <<>> /\ sBook = FALSE /\ sChapters = 0 /\ sLogs = 0
    /\ sResponse = createErrorResponse(0) /\ spc = "off"
ExtractOff == xText = <<>> /\ xResult = [error |-> "", value |-> <<>>] /\ xpc = "off"
FetchOff == gFetched = <<>> /\ gpc = "off"

\* Empty tables, no log entry, no run started
Fresh ==
    /\ books = <<>>
    /\ chapters = {}
    /\ verses = {}
    /\ logs = <<>>
    /\ lost = 0
    /\ faults = 0
    /\ run = [r \in Runs |-> IdleRun]

Init ==
    /\ doc \in Documents
    /\ requests \in Runs
    /\ requests > 1 => doc.textLen <= MAX_CHUNK_SIZE
    /\ logStore = "up"
    /\ Fresh
    /\ ChunkOff /\ MergeOff /\ StatusOff /\ ExtractOff /\ FetchOff

Next ==
    \E r \in Runs :
        \/ Reject(r)
        \/ StartRun(r)
        \/ AcquireText(r)
        \/ LLMRequest(r)
        \/ LLMFailure(r)
        \/ LLMResponse(r)
        \/ StoreChapter(r)
        \/ StoreVerse(r)
        \/ Finalize(r)

Spec == Init /\ [][Next]_vars

\* One run for a stored document of one or two units while the
\* processing_logs inserts may fail
InitLogs ==
    /\ doc \in {d \in Documents : /\ d.exists /\ d.rawTextUrl # "none"
                                  /\ d.textLen <= 2 * MAX_CHUNK_SIZE}
    /\ requests = 1
    /\ logStore = "flaky"
    /\ Fresh
    /\ ChunkOff /\ MergeOff /\ StatusOff /\ ExtractOff /\ FetchOff

SpecLogs == InitLogs /\ [][Next]_vars

\* No document, no trigger: the pipeline is idle in the specifications of the
\* pure functions
PipelineOff ==
    /\ doc = [exists |-> FALSE, rawTextUrl |-> "none", fileType |-> "text/plain",
              status |-> "uploaded", textLen |-> 0]
    /\ requests = 0
    /\ logStore = "up"
    /\ Fresh

\* chunkText applied to every text over Chars of at most MaxLen characters and
\* every maxChunkSize in 1..MaxM
Texts == UNION {[1..n -> Chars] : n \in 0..MaxLen}

InitChunk ==
    /\ PipelineOff
    /\ MergeOff /\ StatusOff /\ ExtractOff /\ FetchOff
    /\ cText \in Texts
    /\ cMax \in 1..MaxM
    /\ cChunks = <<>>
    /\ cpc = "ready"

Chunk ==
    /\ cpc = "ready"
    /\ cChunks' = chunkText(cText, cMax)
    /\ cpc' = "done"
    /\ UNCHANGED <<envVars, storeVars, logVars, faults, run, cText, cMax, mergeVars, statusVars,
                   extractVars, fetchVars>>

NextChunk == Chunk

SpecChunk == InitChunk /\ [][NextChunk]_vars

\* combineResults applied to every sequence of at most MaxUnits units, each
\* null (<<>>) or one of MergeDocs
UnitSeqs == UNION {[1..n -> {<<>>} \cup {<<d>> : d \in MergeDocs}] : n \in 0..MaxUnits}

InitMerge ==
    /\ PipelineOff
    /\ ChunkOff /\ StatusOff /\ ExtractOff /\ FetchOff
    /\ mUnits \in UnitSeqs
    /\ mResult = <<>>
    /\ mpc = "ready"

Merge ==
    /\ mpc = "ready"
    /\ mResult' = <<combineResults(mUnits)>>
    /\ mpc' = "done"
    /\ UNCHANGED <<envVars, storeVars, logVars, faults, run, chunkVars, statusVars, mUnits,
                   extractVars, fetchVars>>

NextMerge == Merge

SpecMerge == InitMerge /\ [][NextMerge]_vars

\* GET /api/status for every status of the documents row (or no row), with or
\* without a Book, and up to MaxRows chapter rows and log rows
InitStatus ==
    /\ PipelineOff
    /\ ChunkOff /\ MergeOff /\ ExtractOff /\ FetchOff
    /\ sDoc \in {<<>>} \cup {<<st>> : st \in DocumentStatuses}
    /\ sBook \in BOOLEAN
    /\ sChapters \in 0..MaxRows
    /\ sChapters > 0 => sBook
    /\ sLogs \in 0..MaxRows
    /\ sResponse = createErrorResponse(0)
    /\ spc = "ready"

GetStatus ==
    /\ spc = "ready"
    /\ sResponse' = GET(sDoc, sBook, sChapters, sLogs)
    /\ spc' = "done"
    /\ UNCHANGED <<envVars, storeVars, logVars, faults, run, chunkVars, mergeVars,
                   sDoc, sBook, sChapters, sLogs, extractVars, fetchVars>>

NextStatus == GetStatus

SpecStatus == InitStatus /\ [][NextStatus]_vars

\* extractJSON applied to every response over RespChars of at most MaxResp
\* characters and to every object holding one string, '{"' body '"}', with a
\* body over BodyChars of at most MaxBody characters
Responses ==
    (UNION {[1..n -> RespChars] : n \in 0..MaxResp})
    \cup {<<"{", Quote>> \o b \o <<Quote, "}">> :
                b \in UNION {[1..n -> BodyChars] : n \in 0..MaxBody}}

InitExtract ==
    /\ PipelineOff
    /\ ChunkOff /\ MergeOff /\ StatusOff /\ FetchOff
    /\ xText \in Responses
    /\ xResult = [error |-> "", value |-> <<>>]
    /\ xpc = "ready"

Extract ==
    /\ xpc = "ready"
    /\ xResult' = extractJSON(xText)
    /\ xpc' = "done"
    /\ UNCHANGED <<envVars, storeVars, logVars, faults, run, chunkVars, mergeVars, statusVars,
                   fetchVars, xText>>

NextExtract == Extract

SpecExtract == InitExtract /\ [][NextExtract]_vars

\* The log stream of a document growing to MaxEntries entries (writeLog by the
\* runs of the document) and fetched at any time (GET /api/status)
InitFetch ==
    /\ PipelineOff
    /\ ChunkOff /\ MergeOff /\ StatusOff /\ ExtractOff
    /\ gFetched = <<>>
    /\ gpc = "idle"

AppendEntry ==
    /\ Len(logs) < MaxEntries
    /\ logs' = writeLog(logs, Log("info", "Processing chunk", Len(logs) + 1), TRUE).logs
    /\ gpc' = "idle"
    /\ UNCHANGED <<envVars, storeVars, lost, faults, run, chunkVars, mergeVars, statusVars,
                   extractVars, gFetched>>

FetchLogs ==
    \E ok \in BOOLEAN :
        /\ gFetched' = getLogsForDocument(logs, DEFAULT_LOG_LIMIT, ok)
        /\ gpc' = IF ok THEN "fetched" ELSE "failed"
        /\ UNCHANGED <<envVars, storeVars, logVars, faults, run, chunkVars, mergeVars,
                       statusVars, extractVars>>

NextFetch == AppendEntry \/ FetchLogs

SpecFetch == InitFetch /\ [][NextFetch]_vars

\* ---------------------------------------------------------------------------
\* Properties
\* ---------------------------------------------------------------------------
Ended(r) == run[r].pc \in {"done", "failed"}
MultiChunk(r) == ~run[r].single /\ run[r].chunks # <<>>

\* 1-based positions of the units an error entry 'Parse failed chunk k' names
ParseFailedChunks ==
    {logs[j].chunk : j \in {x \in 1..Len(logs) :
                               logs[x].level = "error" /\ logs[x].message = "Parse failed"}}

ChapterNumbers(chs) == {chs[k].number : k \in 1..Len(chs)}
UnitChapterNumbers(docs) == UNION {ChapterNumbers(docs[k].chapters) : k \in 1..Len(docs)}

\* C1: a run that reached finalization (its text was acquired and no insert
\* failed terminally) has updated its Book shell exactly once with the merged
\* document's title, description, language, chapter count and verse count and
\* answers success with those totals; the Book no longer holds the placeholder.
C1_RunFinalizesBook ==
    \A r \in Runs :
        run[r].handed # <<>> =>
            LET parsed == run[r].handed[1]
                book == books[run[r].bookId]
            IN  /\ run[r].updates = 1
                /\ book.title = parsed.title
                /\ book.description = parsed.description
                /\ book.language = parsed.language
                /\ book.totalChapters = Len(parsed.chapters)
                /\ book.totalVerses = countVerses(parsed.chapters)
                /\ book # BookShell
                /\ run[r].response.success
                /\ run[r].response.totalChapters = Len(parsed.chapters)
                /\ run[r].response.totalVerses = countVerses(parsed.chapters)

\* The part of C2 about the document handed to finalization and about the log:
\* its chapters are the distinct chapter numbers of the successful units, its
\* title the first successful unit's, and each failed unit has its error entry
C2_HandedDocument ==
    \A r \in Runs :
        (MultiChunk(r) /\ run[r].handed # <<>> /\ Len(run[r].results) < Len(run[r].chunks)) =>
            LET parsed == run[r].handed[1]
            IN  /\ ChapterNumbers(parsed.chapters) = UnitChapterNumbers(run[r].results)
                /\ Len(parsed.chapters) = Cardinality(UnitChapterNumbers(run[r].results))
                /\ run[r].results # <<>> => parsed.title = run[r].results[1].title
                /\ ParseFailedChunks \subseteq 1..Len(run[r].chunks)
                /\ Cardinality(ParseFailedChunks) = Len(run[r].chunks) - Len(run[r].results)

\* C2: in a multi-chunk run in which some units failed, the finalized Book has
\* exactly the distinct chapters of the successful units and the title of the
\* first successful unit, and every failed unit has an error entry 'chunk k'
\* (60,000 characters: 3 chunks; chunk 2 failing, chunks 1 and 3 returning
\* chapters 1 and 2: a Book of 2 chapters with chunk 1's title).
C2_FinalizedBookFromSuccessfulUnits ==
    /\ C2_HandedDocument
    /\ \A r \in Runs :
        (MultiChunk(r) /\ run[r].handed # <<>> /\ Len(run[r].results) < Len(run[r].chunks)) =>
            /\ books[run[r].bookId].totalChapters =
                   Cardinality(UnitChapterNumbers(run[r].results))
            /\ run[r].results # <<>> => books[run[r].bookId].title = run[r].results[1].title

\* C3: in a multi-chunk run of n chunks one LLM request is issued per unit
\* started and none is repeated; every unit that is over is either a parsed
\* result or a logged failure contributing nothing; a run fails only at
\* finalization or through a failing insert, never through a unit's extraction
\* failure; and a run at finalization has issued exactly n requests.
C3_UnitFailuresIsolated ==
    \A r \in Runs :
        MultiChunk(r) =>
            LET n == Len(run[r].chunks)
                over == run[r].i
                started == IF run[r].pc \in {"llm", "store"}
                              \/ (run[r].pc = "failed" /\ run[r].handed = <<>>)
                           THEN over + 1 ELSE over
            IN  /\ run[r].llmRequests = started
                /\ run[r].llmRequests <= n
                /\ Len(run[r].results) + Cardinality(ParseFailedChunks) = over
                /\ run[r].pc = "failed" => (run[r].handed # <<>> \/ faults > 0)
                /\ (run[r].pc = "finalize" \/ run[r].handed # <<>>) =>
                       (run[r].llmRequests = n /\ over = n)

\* A run of 3 chunks whose units 1 and 3 failed and whose unit 2 was parsed and
\* stored has reached finalization
C3_Witness ==
    \E r \in Runs :
        /\ MultiChunk(r) /\ Len(run[r].chunks) = 3
        /\ run[r].handed # <<>>
        /\ run[r].results = <<DocB>>
        /\ ParseFailedChunks = {1, 3}
        /\ \E c \in chapters : c.bookId = run[r].bookId /\ c.number = 2

\* C4: a single-unit run whose extraction failed is not aborted: it hands the
\* empty document titled 'Unknown' to finalization, inserts nothing, and
\* finalizes its Book with it.
C4_SingleFailureStillFinalizes ==
    \A r \in Runs :
        (run[r].single /\ run[r].cur = <<>> /\ run[r].handed # <<>>) =>
            /\ run[r].llmRequests = 1
            /\ run[r].handed[1].title = "Unknown" /\ run[r].handed[1].chapters = <<>>
            /\ ~\E c \in chapters : c.bookId = run[r].bookId
            /\ ~\E v \in verses : v.bookId = run[r].bookId
            /\ run[r].pc = "done"
            /\ books[run[r].bookId].title = "Unknown"

\* C5: the derived status is `completed` only if a Book of the document has
\* been finalized (some run has updated it); while the shell is unfinalized
\* the status is not `completed`.
C5_CompletedOnlyWhenFinalized ==
    ProcessingStatus = "completed" =>
        \E r \in Runs : run[r].updates > 0 /\ books[run[r].bookId] # BookShell

\* C6: once a run has ended with a terminal error before finalization, the
\* derived status of the document is `failed`.
C6_TerminalErrorMeansFailed ==
    \A r \in Runs :
        (run[r].pc = "failed" /\ run[r].handed = <<>>) => ProcessingStatus = "failed"

\* C7: at most one Book row references the document.
C7_OneBookPerDocument ==
    Cardinality({b \in 1..Len(books) : books[b].documentId = "doc"}) <= 1

\* The second run was triggered after a run had ended with 'Processing failed'
RetriedAfterFailure ==
    \E j, k \in 1..Len(logs) :
        /\ j < k
        /\ logs[j].message = "Processing failed"
        /\ logs[k].message = "Starting processing"

\* C8: after a retry of a failed run has ended, the document has no duplicate
\* durable records: no two chapter rows with one chapter number and no two
\* verse rows with one (chapter number, verse number).
C8_RetryLeavesNoDuplicates ==
    (RetriedAfterFailure /\ \A r \in Runs : Ended(r)) =>
        /\ \A c1, c2 \in chapters : c1.number = c2.number => c1 = c2
        /\ \A v1, v2 \in verses :
               (v1.chapterNumber = v2.chapterNumber /\ v1.verseNumber = v2.verseNumber)
                   => v1 = v2

\* The rows of vs with the key of the verse run r is storing
RowsOfCurrentKey(r, vs) ==
    LET chapter == run[r].cur[1].chapters[run[r].ci]
    IN  {v \in vs : /\ v.bookId = run[r].bookId
                    /\ v.chapterNumber = chapter.number
                    /\ v.verseNumber = chapter.verses[run[r].vi].number}

\* Run r is about to call storeVerse with a key its Book already holds
DuplicateVerseCall(r) ==
    /\ run[r].pc = "store"
    /\ run[r].vi > 0
    /\ RowsOfCurrentKey(r, verses) # {}

\* The step is run r's storeVerse answered by the store (no connection fault)
StoreVerseAnswered(r) == run'[r] # run[r] /\ faults' = faults

RECURSIVE concatTexts(_)
concatTexts(chunks) ==
    IF chunks = <<>> THEN <<>> ELSE chunks[1].text \o concatTexts(Tail(chunks))

Ceil(a, b) == (a + b - 1) \div b

\* C10: the chunks of chunkText(T, M), M > 0, concatenated in order give T, and
\* there are ceil(len(T)/M) of them.
C10_ChunkingTotality ==
    cpc = "done" =>
        /\ concatTexts(cChunks) = cText
        /\ Len(cChunks) = Ceil(Len(cText), cMax)

\* A text cut into several chunks, the last one shorter than maxChunkSize
C10_Witness ==
    /\ cpc = "done"
    /\ Len(cChunks) >= 2
    /\ Len(cText) % cMax # 0

\* C11 as stated: for every text T with len(T) <= M, chunkText(T, M) is exactly
\* one chunk whose text is T.
C11_SingleChunk ==
    (cpc = "done" /\ Len(cText) <= cMax) =>
        (Len(cChunks) = 1 /\ cChunks[1].text = cText)

\* C11 (amended): for every non-empty text T with len(T) <= M, chunkText(T, M)
\* is exactly one chunk, spanning [0, len(T)), whose text is T; for the empty
\* text it is the empty list.
C11_SingleChunkNonEmpty ==
    (cpc = "done" /\ Len(cText) <= cMax) =>
        IF cText = <<>> THEN cChunks = <<>>
        ELSE /\ Len(cChunks) = 1
             /\ cChunks[1].text = cText
             /\ cChunks[1].startIndex = 0 /\ cChunks[1].endIndex = Len(cText)

\* A text of exactly maxChunkSize characters, more than one, was chunked
C11_Witness ==
    /\ cpc = "done"
    /\ Len(cText) = cMax
    /\ cMax >= 2
    /\ Len(cChunks) = 1

\* The chapters of the non-null units, in unit order and then in-unit order
allChapters(units) ==
    LET valid == flat(units)
    IN  flat([k \in 1..Len(valid) |-> valid[k].chapters])

\* The occurrences of chapter number n among them, in that order
occurrences(units, n) == SelectSeq(allChapters(units), LAMBDA c : c.number = n)

RECURSIVE concatVerses(_)
concatVerses(chs) ==
    IF chs = <<>> THEN <<>> ELSE chs[1].verses \o concatVerses(Tail(chs))

\* C12: for every chapter number occurring in the units, the merged document
\* has exactly one chapter with that number; its verses are the concatenation
\* of the occurrences' verse lists in unit order and then in-unit order
\* (nothing reordered, dropped or deduplicated) and its title is the first
\* occurrence's.
C12_MergeAccumulation ==
    mpc = "done" =>
        \A n \in ChapterNumbers(allChapters(mUnits)) :
            LET occ == occurrences(mUnits, n)
                got == SelectSeq(mResult[1].chapters, LAMBDA c : c.number = n)
            IN  /\ Len(got) = 1
                /\ got[1].verses = concatVerses(occ)
                /\ got[1].title = occ[1].title

\* Chapter 1 came from DocA, from DocC after chapter 2, and twice from DocD
C12_Witness ==
    /\ mpc = "done"
    /\ mUnits = <<<<DocA>>, <<DocC>>, <<DocD>>>>
    /\ Len(occurrences(mUnits, 1)) = 4
    /\ mResult[1].chapters[1].verses =
           <<Verse(1, "a11"), Verse(1, "c11"), Verse(3, "d13"), Verse(1, "d11")>>

\* C13: the merged chapter list has pairwise distinct numbers in strictly
\* ascending order, exactly the numbers occurring in the units, and a chapter
\* with a single occurrence is that occurrence, title and verses unchanged.
C13_MergeDisjoint ==
    mpc = "done" =>
        LET merged == mResult[1].chapters
        IN  /\ \A j, k \in 1..Len(merged) : j < k => merged[j].number < merged[k].number
            /\ ChapterNumbers(merged) = ChapterNumbers(allChapters(mUnits))
            /\ \A k \in 1..Len(merged) :
                   LET occ == occurrences(mUnits, merged[k].number)
                   IN  Len(occ) = 1 => merged[k] = occ[1]

\* Disjoint chapters listed in descending order: chapter 2 (DocB), then chapter 1 (DocA)
C13_Witness ==
    /\ mpc = "done"
    /\ mUnits = <<<<DocB>>, <<DocA>>>>
    /\ mResult[1].chapters = DocA.chapters \o DocB.chapters

\* Positions of the non-null units
NonNull(units) == {k \in 1..Len(units) : units[k] # <<>>}

\* C14: combineResults of a sequence of units with nulls yields a document;
\* its title, description and language are those of the first non-null unit,
\* and when every unit is null they are 'Unknown', 'No description',
\* 'Unknown' and there is no chapter.
C14_NullTolerantMerge ==
    mpc = "done" =>
        /\ Len(mResult) = 1
        /\ DOMAIN mResult[1] = {"title", "description", "language", "chapters"}
        /\ IF NonNull(mUnits) = {}
           THEN mResult[1] = ParsedDocument("Unknown", "No description", "Unknown", <<>>)
           ELSE LET first == mUnits[CHOOSE k \in NonNull(mUnits) :
                                       \A j \in NonNull(mUnits) : k <= j][1]
                IN  /\ mResult[1].title = first.title
                    /\ mResult[1].description = first.description
                    /\ mResult[1].language = first.language

\* A null unit, then two units with different metadata, the first of them
\* with an empty description
C14_Witness ==
    /\ mpc = "done"
    /\ mUnits = <<<<>>, <<DocE>>, <<DocB>>>>
    /\ mResult[1].title = "E" /\ mResult[1].description = ""

\* C15 as stated: for a documents row with status st and Book existence b, the
\* status answered is failed if st is failed, else completed if b, else
\* processing if st is processing, else uploaded; whatever the chapter and log
\* rows are.
C15_StatusDerivation ==
    (spc = "done" /\ sDoc # <<>>) =>
        sResponse.status = IF sDoc[1] = "failed" THEN "failed"
                           ELSE IF sBook THEN "completed"
                           ELSE IF sDoc[1] = "processing" THEN "processing"
                           ELSE "uploaded"

\* C15 (amended): ... else processing if st is processing or parsing, else
\* uploaded; whatever the chapter and log rows are.
C15_StatusDerivationParsing ==
    (spc = "done" /\ sDoc # <<>>) =>
        sResponse.status = IF sDoc[1] = "failed" THEN "failed"
                           ELSE IF sBook THEN "completed"
                           ELSE IF sDoc[1] \in {"processing", "parsing"} THEN "processing"
                           ELSE "uploaded"

\* The status of a document in status 'parsing' without a Book, with log rows,
\* was answered
C15_Witness ==
    /\ spc = "done"
    /\ sDoc = <<"parsing">> /\ ~sBook /\ sLogs > 0
    /\ sResponse.status = "processing"

\* The errors a run can end with: of the record store, of the text acquisition
\* and of updateBook
PipelineErrors ==
    {StoreDown, ForeignKey, DuplicateKey, NotImplemented, "Document not found",
     "Failed to fetch document", "fetch failed", "PDF extraction failed"}

\* The units run r received, each as <<doc>>
ReceivedUnits(r) ==
    IF run[r].single THEN <<run[r].cur>>
    ELSE [k \in 1..Len(run[r].results) |-> <<run[r].results[k]>>]

\* The chapter rows storeChunkData makes of units for Book b when no insert
\* fails: one per chapter number, made of the number's first occurrence
ExpectedChapterRows(b, units) ==
    {[bookId |-> b, number |-> n, title |-> occurrences(units, n)[1].title,
      verseCount |-> Len(occurrences(units, n)[1].verses)] :
         n \in ChapterNumbers(allChapters(units))}

\* The verses of units as (chapter number, verse) pairs, in storing order
allVerses(units) ==
    LET chs == allChapters(units)
    IN  flat([k \in 1..Len(chs) |->
                 [j \in 1..Len(chs[k].verses) |->
                     [chapterNumber |-> chs[k].number, verse |-> chs[k].verses[j]]]])

\* The verse rows for Book b: one per (chapter number, verse number), with the
\* text of the key's first occurrence
ExpectedVerseRows(b, units) ==
    LET vs == allVerses(units)
    IN  {[bookId |-> b, chapterNumber |-> vs[k].chapterNumber,
          verseNumber |-> vs[k].verse.number,
          originalText |-> SelectSeq(vs, LAMBDA x :
                               /\ x.chapterNumber = vs[k].chapterNumber
                               /\ x.verse.number = vs[k].verse.number)[1].verse.originalText] :
             k \in 1..Len(vs)}

\* C16: whichever processing_logs inserts fail, no run ends with the log
\* store's error, and a run that reached finalization has issued one LLM
\* request per unit, has written (no record-store insert failing) exactly the
\* chapter and verse rows of the units it received, and answers what the run
\* without a failing log write answers: the outcome is determined by the
\* document, the LLM's answers and the record store, not by the log writes.
C16_LoggingNeverAborts ==
    \A r \in Runs :
        /\ run[r].pc = "failed" => run[r].response.error \in PipelineErrors
        /\ run[r].pc \in {"created", "request", "llm", "store", "finalize"} =>
               run[r].response = NoResponse
        /\ run[r].handed # <<>> =>
               /\ run[r].llmRequests = IF run[r].single THEN 1 ELSE Len(run[r].chunks)
               /\ run[r].response = ErrorResponse(NotImplemented)
               /\ faults = 0 =>
                      /\ {c \in chapters : c.bookId = run[r].bookId}
                             = ExpectedChapterRows(run[r].bookId, ReceivedUnits(r))
                      /\ {v \in verses : v.bookId = run[r].bookId}
                             = ExpectedVerseRows(run[r].bookId, ReceivedUnits(r))

\* A run of two chunks reached finalization with both units stored while a log
\* write failed: a chapter row has no 'Stored Chapter' entry
C16_Witness ==
    \E r \in Runs :
        /\ lost > 0 /\ faults = 0
        /\ run[r].handed # <<>>
        /\ Len(run[r].results) = 2
        /\ \E c \in chapters :
               /\ c.bookId = run[r].bookId
               /\ ~\E j \in 1..Len(logs) :
                      logs[j].message = "Stored Chapter" /\ logs[j].chunk = c.number

\* C17: an insert of a Book, chapter or verse row that fails for a reason
\* other than a uniqueness violation ends the run: the run is failed, answers
\* 500, and 'Processing failed' is logged.
C17_OtherFailuresTerminal ==
    [][\A r \in Runs :
          (run'[r] # run[r] /\ faults' > faults) =>
              /\ run'[r].pc = "failed"
              /\ run'[r].response.status = 500
              /\ Len(logs') > Len(logs)
              /\ logs'[Len(logs')] = FailLog(StoreDown)]_vars

CountEntries(message) == Cardinality({j \in 1..Len(logs) : logs[j].message = message})

\* The chunk numbers of the 'Processing chunk' entries, in log order
ChunkEntries ==
    LET es == SelectSeq(logs, LAMBDA e : e.message = "Processing chunk")
    IN  [k \in 1..Len(es) |-> es[k].chunk]

\* The rows of run r's Book
BookChapters(r) == {c \in chapters : c.bookId = run[r].bookId}
BookVerses(r) == {v \in verses : v.bookId = run[r].bookId}

\* C18: in a multi-chunk run the units are started in ascending chunk index,
\* 1, 2, ..., one LLM request each; at most one request is unanswered, and
\* only while the run waits for it; whenever the run is about to issue a
\* request, waits for one or is at finalization, every row of every earlier
\* unit is in the store (no insert failing), and while it stores a unit the
\* store holds the earlier units' rows and nothing beyond the current unit's.
C18_UnitsSequential ==
    \A r \in Runs :
        MultiChunk(r) =>
            LET unanswered == CountEntries("LLM Request") - CountEntries("Parsed")
                                  - CountEntries("Parse failed")
                earlier == ReceivedUnits(r)
                current == Append(earlier, run[r].cur)
            IN  /\ ChunkEntries = [k \in 1..run[r].llmRequests |-> k]
                /\ CountEntries("LLM Request") = run[r].llmRequests
                /\ unanswered = IF run[r].pc = "llm" THEN 1 ELSE 0
                /\ (faults = 0 /\ run[r].pc \in {"request", "llm", "finalize"}) =>
                       /\ BookChapters(r) = ExpectedChapterRows(run[r].bookId, earlier)
                       /\ BookVerses(r) = ExpectedVerseRows(run[r].bookId, earlier)
                /\ (faults = 0 /\ run[r].pc = "store") =>
                       /\ ExpectedChapterRows(run[r].bookId, earlier) \subseteq BookChapters(r)
                       /\ BookChapters(r) \subseteq ExpectedChapterRows(run[r].bookId, current)
                       /\ ExpectedVerseRows(run[r].bookId, earlier) \subseteq BookVerses(r)
                       /\ BookVerses(r) \subseteq ExpectedVerseRows(run[r].bookId, current)

\* The request for chunk 3 is unanswered; the units of chunks 1 and 2 were
\* parsed and their rows are stored
C18_Witness ==
    \E r \in Runs :
        /\ MultiChunk(r) /\ Len(run[r].chunks) = 3
        /\ run[r].pc = "llm" /\ run[r].i = 2
        /\ run[r].results = <<DocC, DocA>>
        /\ faults = 0
        /\ Cardinality(BookVerses(r)) = 2

\* C19: under every interleaving of the runs, a step of a run adds chapter and
\* verse rows only to the Book the run created and leaves every other Book
\* row unchanged, and the step in which a run issues its finalizing update
\* updates its Book, once.
C19_BookOwnedAndFinalizedOnce ==
    [][\A r \in Runs :
          run'[r] # run[r] =>
              /\ \A c \in chapters' \ chapters : c.bookId = run'[r].bookId
              /\ \A v \in verses' \ verses : v.bookId = run'[r].bookId
              /\ \A b \in 1..Len(books) : b # run'[r].bookId => books'[b] = books[b]
              /\ \A q \in Runs \ {r} : run[q].bookId > 0 => run[q].bookId # run'[r].bookId
              /\ (run[r].handed = <<>> /\ run'[r].handed # <<>>) =>
                     /\ run'[r].updates = 1
                     /\ books'[run'[r].bookId] # BookShell]_vars

\* The part of C19 about whose rows a run writes, without the finalizing update
C19_Isolation ==
    [][\A r \in Runs :
          run'[r] # run[r] =>
              /\ \A c \in chapters' \ chapters : c.bookId = run'[r].bookId
              /\ \A v \in verses' \ verses : v.bookId = run'[r].bookId
              /\ \A b \in 1..Len(books) : b # run'[r].bookId => books'[b] = books[b]
              /\ \A q \in Runs \ {r} : run[q].bookId > 0 => run[q].bookId # run'[r].bookId]_vars

\* The state part of C20
BookOrder ==
    /\ \A c \in chapters : c.bookId \in 1..Len(books)
    /\ \A v \in verses : v.bookId \in 1..Len(books)
    /\ \A r \in Runs :
           /\ run[r].pc \in {"created", "request", "llm", "store", "finalize"} =>
                  run[r].bookId \in 1..Len(books)
           /\ run[r].bookId = 0 => run[r].pc \in {"idle", "rejected", "failed"}
           /\ run[r].pc = "store" => run[r].handed = <<>>
           /\ run[r].handed # <<>> =>
                  /\ Ended(r)
                  /\ run[r].single \/ run[r].i = Len(run[r].chunks)
           /\ (~run[r].single /\ run[r].pc = "finalize") => run[r].i = Len(run[r].chunks)
           /\ run[r].updates <= 1

\* C20: chapter and verse rows exist only for Books whose shell is in the
\* table, and a run is past its shell insert whenever it parses or stores; the
\* finalizing update is issued only after the last unit is over; once it is
\* issued the run has ended: it takes no further step, so it issues no insert
\* and no second update, and the rows of its Book stay as they are.
C20_BookStateMachine ==
    /\ []BookOrder
    /\ [][\A r \in Runs :
             run[r].handed # <<>> =>
                 /\ run'[r] = run[r]
                 /\ BookChapters(r)' = BookChapters(r)
                 /\ BookVerses(r)' = BookVerses(r)]_vars

\* A run of 3 chunks stored chapters and verses of its units and then issued
\* the finalizing update
C20_Witness ==
    \E r \in Runs :
        /\ MultiChunk(r) /\ run[r].i = 3
        /\ run[r].handed # <<>>
        /\ Len(run[r].handed[1].chapters) = 2
        /\ Cardinality(BookChapters(r)) = 2
        /\ BookVerses(r) # {}
        /\ books[run[r].bookId] = BookShell

\* Run r is about to call storeChapter for a chapter number it has stored
RepeatedChapterCall(r) ==
    /\ run[r].pc = "store"
    /\ run[r].vi = 0
    /\ run[r].cur[1].chapters[run[r].ci].number \in {c.number : c \in BookChapters(r)}

\* C21: in every state the insertedChapters set of a run is the set of chapter
\* numbers of the chapter rows of the run's Book, one row per number; and a
\* storeChapter call for a number the run has stored issues no insert: the
\* chapters table, the fault count and the log stay as they are and the run
\* goes on.
C21_ChapterInsertedOnce ==
    /\ [](\A r \in Runs :
             /\ run[r].insertedChapters = {c.number : c \in BookChapters(r)}
             /\ Cardinality(BookChapters(r)) = Cardinality(run[r].insertedChapters))
    /\ [][\A r \in Runs :
             (RepeatedChapterCall(r) /\ run'[r] # run[r]) =>
                 /\ chapters' = chapters
                 /\ faults' = faults
                 /\ logs' = logs
                 /\ run'[r].pc # "failed"
                 /\ run'[r].insertedChapters = run[r].insertedChapters]_vars

\* Chapter 1 was returned by unit 1 (DocA) and again by unit 2 (DocC); the
\* Book holds the one row made of the first mention
C21_Witness ==
    \E r \in Runs :
        /\ Len(run[r].results) >= 2
        /\ run[r].results[1] = DocA /\ run[r].results[2] = DocC
        /\ {c \in BookChapters(r) : c.number = 1}
               = {[bookId |-> run[r].bookId, number |-> 1, title |-> "A1", verseCount |-> 1]}
        /\ run[r].insertedChapters = {1, 2}

\* C22: chunk k (0-based) of chunkText(T, M), M >= 1, starts at k*M, ends at
\* min((k+1)*M, len(T)) and its text is T[startIndex, endIndex); no chunk is
\* empty or longer than M and every chunk but the last has M characters.
C22_ChunkGeometry ==
    cpc = "done" =>
        \A k \in 1..Len(cChunks) :
            LET c == cChunks[k]
            IN  /\ c.startIndex = (k - 1) * cMax
                /\ c.endIndex = Min(k * cMax, Len(cText))
                /\ c.text = [j \in 1..(c.endIndex - c.startIndex) |-> cText[c.startIndex + j]]
                /\ Len(c.text) >= 1
                /\ Len(c.text) <= cMax
                /\ k < Len(cChunks) => Len(c.text) = cMax
                /\ k > 1 => c.startIndex = cChunks[k - 1].endIndex

\* A text cut into three chunks or more, the last one shorter than the others
C22_Witness ==
    /\ cpc = "done"
    /\ Len(cChunks) >= 3
    /\ Len(cChunks[Len(cChunks)].text) < cMax

\* The errors of extractDocumentText
AcquisitionErrors ==
    {"Document not found", "Failed to fetch document", "fetch failed", "PDF extraction failed"}

\* The log entries the step appends
NewEntries == {logs'[j] : j \in (Len(logs) + 1)..Len(logs')}

\* The step is run r's text acquisition and the acquisition cannot have
\* succeeded: the document has no content reference, the fetch threw or was
\* answered with a non-success status, or the PDF extraction did not complete
AcquisitionFailedStep(r) ==
    /\ run[r].pc = "created"
    /\ run'[r] # run[r]
    /\ \/ doc.rawTextUrl = "none"
       \/ \E e \in NewEntries : e.message = "Fetch response" /\ e.detail # "200"
       \/ \E e \in NewEntries : e.message = "Fetch failed"
       \/ /\ \E e \in NewEntries : e.message = "Starting PDF text extraction..."
          /\ ~\E e \in NewEntries : e.message = "PDF extraction complete"

\* C23: a run whose text acquisition fails ends in that step with a 500
\* response carrying the acquisition error; it has issued no LLM request, its
\* Book has no chapter and no verse row, and no finalizing update was issued:
\* the Book is the shell.
C23_AcquisitionFailureAborts ==
    /\ [][\A r \in Runs :
             AcquisitionFailedStep(r) =>
                 /\ run'[r].pc = "failed"
                 /\ run'[r].response.status = 500
                 /\ run'[r].response.error \in AcquisitionErrors]_vars
    /\ [](\A r \in Runs :
             (run[r].pc = "failed" /\ run[r].response.error \in AcquisitionErrors) =>
                 /\ run[r].llmRequests = 0
                 /\ BookChapters(r) = {} /\ BookVerses(r) = {}
                 /\ run[r].handed = <<>> /\ run[r].updates = 0
                 /\ books[run[r].bookId] = BookShell
                 /\ ~run[r].response.success)

\* A run ended on a fetch answered with a non-success status
C23_Witness ==
    \E r \in Runs :
        /\ run[r].pc = "failed"
        /\ run[r].response.error = "Failed to fetch document"
        /\ \E j \in 1..Len(logs) : logs[j].message = "Fetch response" /\ logs[j].detail = "500"

\* The step ends run r with a terminal failure (its logger exists: the run
\* was not rejected)
TerminalFailureStep(r) == run[r].pc # "failed" /\ run'[r].pc = "failed"

\* C24 as stated: the step that ends a run with a terminal failure appends,
\* as the last entry before the response, an error entry 'Processing failed'
\* carrying the failure message the response carries.
C24_TerminalFailureLogged ==
    [][\A r \in Runs :
          TerminalFailureStep(r) =>
              /\ Len(logs') > Len(logs)
              /\ logs'[Len(logs')] = FailLog(run'[r].response.error)]_vars

\* C24 (amended): the step that ends a run with a terminal failure writes an
\* error entry 'Processing failed' carrying the failure message before the
\* response; the entry is the last of the log stream unless a log write of
\* the step failed, and the response is the same in both cases.
C24_TerminalFailureLoggedUnlessLost ==
    [][\A r \in Runs :
          TerminalFailureStep(r) =>
              /\ run'[r].response = ErrorResponse(run'[r].response.error)
              /\ run'[r].response.error \in PipelineErrors
              /\ \/ lost' > lost
                 \/ /\ Len(logs') > Len(logs)
                    /\ logs'[Len(logs')] = [level |-> "error", message |-> "Processing failed",
                                            chunk |-> 0,
                                            detail |-> run'[r].response.error]]_vars

\* A run ended on a failing insert; 'Processing failed' with the store's
\* message is the last entry although an earlier log write had failed
C24_Witness ==
    \E r \in Runs :
        /\ run[r].pc = "failed" /\ run[r].response.error = StoreDown
        /\ lost > 0
        /\ logs # <<>>
        /\ logs[Len(logs)] = FailLog(StoreDown)

\* ---------------------------------------------------------------------------
\* Extraction of the JSON object from an LLM response
\* ---------------------------------------------------------------------------
\* Position of the '}' closing the object opened before position k, 0 if none
RECURSIVE closingBrace(_, _, _)
closingBrace(text, k, depth) ==
    IF k > Len(text) THEN 0
    ELSE IF text[k] = "{" THEN closingBrace(text, k + 1, depth + 1)
    ELSE IF text[k] = "}"
    THEN IF depth = 1 THEN k ELSE closingBrace(text, k + 1, depth - 1)
    ELSE closingBrace(text, k + 1, depth)

\* The span from the first '{' of the text to the '}' that closes it, <<>> if
\* the text has no '{' or its first '{' is never closed
firstBalancedSpan(text) ==
    LET opens == {i \in 1..Len(text) : text[i] = "{"}
    IN  IF opens = {} THEN <<>>
        ELSE LET i == CHOOSE a \in opens : \A b \in opens : a <= b
                 j == closingBrace(text, i + 1, 1)
             IN  IF j = 0 THEN <<>> ELSE SubSeq(text, i, j)

HasBraceSpan(text) ==
    \E i \in 1..Len(text) : \E j \in (i + 1)..Len(text) : text[i] = "{" /\ text[j] = "}"

NoStrings(text) == \A k \in 1..Len(text) : text[k] # Quote

\* C25: extractJSON parses the first balanced-brace span of the response,
\* from the first '{' to the '}' that closes it, and nothing after it, so what
\* follows the closing brace does not change the result; a response with no
\* '{...}' span fails with the extraction error. (Stated for responses
\* without strings, where every brace is a brace of an object.)
C25_FirstBalancedSpan ==
    xpc = "done" =>
        /\ (NoStrings(xText) /\ firstBalancedSpan(xText) # <<>>) =>
                xResult = JSONparse(sanitizeJSON(firstBalancedSpan(xText)))
        /\ ~HasBraceSpan(xText) => xResult.error = NoJSONFound

\* The part of C25 the code has: the span parsed runs from the first '{' that
\* has a '}' after it to the last '}' of the response, and a response without
\* such a span fails with the extraction error.
C25_GreedySpan ==
    xpc = "done" =>
        IF HasBraceSpan(xText)
        THEN LET i == CHOOSE a \in 1..Len(xText) :
                          /\ xText[a] = "{"
                          /\ \A b \in 1..(a - 1) : xText[b] # "{"
                 j == CHOOSE a \in 1..Len(xText) :
                          /\ xText[a] = "}"
                          /\ \A b \in (a + 1)..Len(xText) : xText[b] # "}"
             IN  i < j => xResult = JSONparse(sanitizeJSON(SubSeq(xText, i, j)))
        ELSE xResult.error = NoJSONFound

\* An object holding one string: '{"' body '"}', the body without '"'
IsStringObject(text) ==
    /\ Len(text) >= 4 /\ text[1] = "{" /\ text[2] = Quote
    /\ text[Len(text) - 1] = Quote /\ text[Len(text)] = "}"
    /\ \A k \in 3..(Len(text) - 2) : text[k] \in BodyChars

bodyOf(text) == SubSeq(text, 3, Len(text) - 2)

\* What the body of an object is repaired to, read escape by escape: \xHH is
\* the character HH, a recognized escape is what it denotes, any other
\* backslash is a literal backslash
RECURSIVE repaired(_, _)
repaired(b, k) ==
    IF k > Len(b) THEN <<>>
    ELSE IF b[k] = Backslash
    THEN IF k + 1 <= Len(b) /\ b[k + 1] = "x" /\ IsHexAt(b, k + 2) /\ IsHexAt(b, k + 3)
         THEN <<16 * HexVal(b[k + 2]) + HexVal(b[k + 3])>> \o repaired(b, k + 4)
         ELSE IF k + 1 <= Len(b) /\ b[k + 1] \in RecognizedEscapes \ {"u"}
         THEN <<EscapeCode(b[k + 1])>> \o repaired(b, k + 2)
         ELSE <<92>> \o repaired(b, k + 1)
    ELSE <<CharCode(b[k])>> \o repaired(b, k + 1)

\* The body, read escape by escape, ends in a backslash of its own: it
\* escapes the string's closing '"'
RECURSIVE endsInBackslash(_, _)
endsInBackslash(b, k) ==
    IF k > Len(b) THEN FALSE
    ELSE IF b[k] = Backslash
    THEN IF k = Len(b) THEN TRUE
         ELSE IF b[k + 1] = "x" /\ IsHexAt(b, k + 2) /\ IsHexAt(b, k + 3)
         THEN endsInBackslash(b, k + 4)
         ELSE IF b[k + 1] \in RecognizedEscapes \ {"u"} THEN endsInBackslash(b, k + 2)
         ELSE endsInBackslash(b, k + 1)
    ELSE endsInBackslash(b, k + 1)

\* An object holding one string closed by its last '"'
Repairable(text) == IsStringObject(text) /\ ~endsInBackslash(bodyOf(text), 1)

Repaired(text) ==
    [error |-> "",
     value |-> <<OPEN, QUOTED>> \o repaired(bodyOf(text), 1) \o <<QUOTED, CLOSE>>]

HasEscapedBackslash(b) == \E k \in 1..(Len(b) - 1) : b[k] = Backslash /\ b[k + 1] = Backslash

\* C26: a string holding \xHH sequences and backslashes not followed by a
\* recognized escape character still parses: every \xHH yields the character
\* HH (\x41 yields 'A', code 65) and every such backslash yields a literal
\* backslash.
C26_SanitizationRepairs ==
    (xpc = "done" /\ Repairable(xText)) => xResult = Repaired(xText)

\* The part of C26 the code has: the same for strings in which no backslash
\* follows a backslash.
C26_RepairsUnescaped ==
    (xpc = "done" /\ Repairable(xText) /\ ~HasEscapedBackslash(bodyOf(xText))) =>
        xResult = Repaired(xText)

\* C30: when the span extractJSON matched is valid JSON already, extractJSON
\* returns the value that parsing the span directly gives, escaped
\* backslashes followed by any character included.
C30_IdentityOnValid ==
    (xpc = "done" /\ jsonMatch(xText) # <<>> /\ JSONparse(jsonMatch(xText)).error = "") =>
        xResult = JSONparse(jsonMatch(xText))

\* The part of C30 the code has: the same for spans in which no backslash
\* follows a backslash.
C30_IdentityWithoutEscapedBackslash ==
    (xpc = "done" /\ jsonMatch(xText) # <<>> /\ JSONparse(jsonMatch(xText)).error = ""
        /\ ~HasEscapedBackslash(jsonMatch(xText))) =>
        xResult = JSONparse(jsonMatch(xText))

\* ---------------------------------------------------------------------------
\* The log stream served to callers
\* ---------------------------------------------------------------------------
\* C27: the logs returned for a document are its appended entries in creation
\* order, and every entry appended before a fetch is in what the fetch
\* returns, the most recent one included, however many entries there are.
C27_EveryEntryServed ==
    gpc = "fetched" => gFetched = logs

\* The part of C27 the code has: a fetch returns the oldest entries in
\* creation order, DEFAULT_LOG_LIMIT of them at most, and the stream only
\* grows at its end.
C27_OldestEntriesServed ==
    /\ [](gpc = "fetched" =>
            /\ Len(gFetched) = Min(DEFAULT_LOG_LIMIT, Len(logs))
            /\ \A k \in 1..Len(gFetched) : gFetched[k] = logs[k])
    /\ [][Len(logs') >= Len(logs) /\ SubSeq(logs', 1, Len(logs)) = logs]_vars

\* ---------------------------------------------------------------------------
\* Declared totals against persisted rows
\* ---------------------------------------------------------------------------
\* The update the run hands to updateBook: the totals the Book declares once
\* finalized
Finalizing(r) == run[r].handed # <<>>
DeclaredChapters(r) == Len(run[r].handed[1].chapters)
DeclaredVerses(r) == countVerses(run[r].handed[1].chapters)

\* C28: once a run has handed its finalizing update, the totalVerses it
\* declares for its Book is the number of verse rows persisted for the Book
\* and the totalChapters the number of chapter rows, also when units returned
\* the same (chapter, verse) key more than once or a verse insert failed and
\* was swallowed.
C28_TotalsMatchRows ==
    \A r \in Runs :
        Finalizing(r) =>
            /\ DeclaredVerses(r) = Cardinality(BookVerses(r))
            /\ DeclaredChapters(r) = Cardinality(BookChapters(r))

\* The part of C28 the code has: the declared totalChapters is the number of
\* chapter rows, and no more verse rows are persisted than declared.
C28_ChapterTotalMatchesRows ==
    \A r \in Runs :
        Finalizing(r) =>
            /\ DeclaredChapters(r) = Cardinality(BookChapters(r))
            /\ Cardinality(BookVerses(r)) <= DeclaredVerses(r)

\* C29: once a run has handed its finalizing update, every persisted
\* chapter's verseCount is the number of verses the chapter has in the merged
\* document, also when its verses came from several chunks.
C29_VerseCountMatchesMerged ==
    \A r \in Runs :
        Finalizing(r) =>
            \A c \in BookChapters(r) :
                \E k \in 1..Len(run[r].handed[1].chapters) :
                    /\ run[r].handed[1].chapters[k].number = c.number
                    /\ c.verseCount = Len(run[r].handed[1].chapters[k].verses)

\* The part of C29 the code has: a chapter row's verseCount is the number of
\* verses of the first chapter object with that number, and every persisted
\* chapter is a chapter of the merged document.
C29_VerseCountOfFirstOccurrence ==
    \A r \in Runs :
        Finalizing(r) =>
            \A c \in BookChapters(r) :
                LET all == allChapters(ReceivedUnits(r))
                    first == CHOOSE k \in 1..Len(all) :
                                 /\ all[k].number = c.number
                                 /\ \A j \in 1..(k - 1) : all[j].number # c.number
                IN  /\ \E k \in 1..Len(all) : all[k].number = c.number
                    /\ c.verseCount = Len(all[first].verses)
                    /\ c.number \in ChapterNumbers(run[r].handed[1].chapters)

====
